---- MODULE Spec2Model ----
(***************************************************************************)
(* GoCodeAnalyzer (src/tools/analyze_code.py): five regular-expression     *)
(* scanners over the text of one Go file, and the directory walk that      *)
(* feeds every *.go file to them and accumulates the findings in five      *)
(* dictionaries.                                                           *)
(*                                                                         *)
(* A text is a sequence of tokens.  A token is either a word (a maximal    *)
(* run of \w characters, kept as one string) or a single non-word          *)
(* character.  Every regular expression of the source is translated to an  *)
(* operator over such sequences that returns what re.search / re.findall / *)
(* re.finditer return: leftmost match first, greedy and lazy quantifiers   *)
(* as Python resolves them, the scan resuming at the end of each match.    *)
(* Keywords occur in the texts as whole words only.                        *)
(***************************************************************************)
EXTENDS Integers, Sequences, FiniteSets, TLC

\* Largest number of files in the scanned tree.
MaxFiles == 3

----------------------------------------------------------------------------
(* Characters *)

EOF == "<eof>"
WS == {" ", "\n", "\t"}
NonWord == WS \cup {"(", ")", "{", "}", "*", ";", ",", "\"", "/", "."}

At(text, i) == IF i \in 1..Len(text) THEN text[i] ELSE EOF
IsWord(t) == t # EOF /\ t \notin NonWord
IsSpace(t) == t \in WS

\* \s* from position i: the first position at or after i that is not white space.
RECURSIVE SkipWS(_, _)
SkipWS(text, i) ==
    IF IsSpace(At(text, i)) THEN SkipWS(text, i + 1) ELSE i

\* The first position at or after i holding a token of stops, or Len(text)+1.
RECURSIVE FindFirst(_, _, _)
FindFirst(text, i, stops) ==
    IF i > Len(text) \/ text[i] \in stops THEN i ELSE FindFirst(text, i + 1, stops)

----------------------------------------------------------------------------
(* re.search(r'package\s+(\w+)', content) *)

PackageMatchAt(text, i) ==
    /\ At(text, i) = "package"
    /\ IsSpace(At(text, i + 1))
    /\ IsWord(At(text, SkipWS(text, i + 1)))

\* <<>> when there is no match (None), << group(1) >> of the first match otherwise.
RECURSIVE PackageSearchFrom(_, _)
PackageSearchFrom(text, i) ==
    IF i > Len(text) THEN << >>
    ELSE IF PackageMatchAt(text, i) THEN << text[SkipWS(text, i + 1)] >>
    ELSE PackageSearchFrom(text, i + 1)

\* Variant: the last match instead of the first.
RECURSIVE PackageSearchLastFrom(_, _)
PackageSearchLastFrom(text, i) ==
    IF i < 1 THEN << >>
    ELSE IF PackageMatchAt(text, i) THEN << text[SkipWS(text, i + 1)] >>
    ELSE PackageSearchLastFrom(text, i - 1)

PackageSearchLast(text) == PackageSearchLastFrom(text, Len(text))

PackageSearch(text) == PackageSearchFrom(text, 1)

----------------------------------------------------------------------------
(* re.findall(r'import\s*\(\s*(.*?)\s*\)', content, re.DOTALL) *)

ImportOpen(text, i) == SkipWS(text, i + 1)

ImportMatchAt(text, i) ==
    /\ At(text, i) = "import"
    /\ At(text, ImportOpen(text, i)) = "("
    /\ FindFirst(text, ImportOpen(text, i) + 1, {")"}) <= Len(text)

\* The lazy group stops at the first position from which only white space
\* separates it from the closing parenthesis.
RECURSIVE LazyEnd(_, _, _)
LazyEnd(text, start, close) ==
    IF close > start /\ IsSpace(text[close - 1])
    THEN LazyEnd(text, start, close - 1)
    ELSE close

ImportGroup(text, i) ==
    LET start == SkipWS(text, ImportOpen(text, i) + 1)
        close == FindFirst(text, start, {")"})
    IN  SubSeq(text, start, LazyEnd(text, start, close) - 1)

ImportEnd(text, i) ==
    FindFirst(text, SkipWS(text, ImportOpen(text, i) + 1), {")"})

\* The list of group(1) of every match, in text order.
RECURSIVE ImportFindall(_, _)
ImportFindall(text, i) ==
    IF i > Len(text) THEN << >>
    ELSE IF ImportMatchAt(text, i)
         THEN << ImportGroup(text, i) >> \o ImportFindall(text, ImportEnd(text, i) + 1)
         ELSE ImportFindall(text, i + 1)

(* re.finditer(r'"([^"]+)"', import_block) *)

QuotedMatchAt(block, i) ==
    /\ At(block, i) = "\""
    /\ At(block, i + 1) \notin {"\"", EOF}
    /\ FindFirst(block, i + 1, {"\""}) <= Len(block)

RECURSIVE QuotedFinditer(_, _)
QuotedFinditer(block, i) ==
    IF i > Len(block) THEN << >>
    ELSE IF QuotedMatchAt(block, i)
         THEN LET close == FindFirst(block, i + 1, {"\""})
              IN  << SubSeq(block, i + 1, close - 1) >> \o QuotedFinditer(block, close + 1)
         ELSE QuotedFinditer(block, i + 1)

----------------------------------------------------------------------------
(* re.finditer(r'type\s+(\w+)\s+interface\s*{([^}]+)}', content) and       *)
(* re.finditer(r'type\s+(\w+)\s+struct\s*{([^}]+)}', content)              *)

TypeNamePos(text, i) == SkipWS(text, i + 1)
TypeKwPos(text, i) == SkipWS(text, TypeNamePos(text, i) + 1)
TypeBracePos(text, i) == SkipWS(text, TypeKwPos(text, i) + 1)
TypeClosePos(text, i) == FindFirst(text, TypeBracePos(text, i) + 1, {"}"})

TypeMatchAt(text, i, kw) ==
    /\ At(text, i) = "type"
    /\ IsSpace(At(text, i + 1))
    /\ IsWord(At(text, TypeNamePos(text, i)))
    /\ IsSpace(At(text, TypeNamePos(text, i) + 1))
    /\ At(text, TypeKwPos(text, i)) = kw
    /\ At(text, TypeBracePos(text, i)) = "{"
    /\ At(text, TypeBracePos(text, i) + 1) \notin {"}", EOF}
    /\ TypeClosePos(text, i) <= Len(text)

\* The matches in text order, each as [name |-> group(1), body |-> group(2)].
RECURSIVE TypeFinditer(_, _, _)
TypeFinditer(text, i, kw) ==
    IF i > Len(text) THEN << >>
    ELSE IF TypeMatchAt(text, i, kw)
         THEN << [name |-> text[TypeNamePos(text, i)],
                  body |-> SubSeq(text, TypeBracePos(text, i) + 1,
                                  TypeClosePos(text, i) - 1)] >>
              \o TypeFinditer(text, TypeClosePos(text, i) + 1, kw)
         ELSE TypeFinditer(text, i + 1, kw)

(* re.finditer(r'(\w+)\([^)]*\)[^{]*', method_block) *)

SigMatchAt(body, i) ==
    /\ IsWord(At(body, i))
    /\ At(body, i + 1) = "("
    /\ FindFirst(body, i + 2, {")"}) <= Len(body)

\* The end of the match: [^{]* runs to the next opening brace or to the end.
SigEnd(body, i) == FindFirst(body, FindFirst(body, i + 2, {")"}) + 1, {"{"})

RECURSIVE MethodBlockFinditer(_, _)
MethodBlockFinditer(body, i) ==
    IF i > Len(body) THEN << >>
    ELSE IF SigMatchAt(body, i)
         THEN << body[i] >> \o MethodBlockFinditer(body, SigEnd(body, i))
         ELSE MethodBlockFinditer(body, i + 1)

(* re.finditer(r'(\w+)\s+[^,\n]+', field_block) *)

\* Where [^,\n]+ can start after the word at i: \s+ takes at least one white
\* space and the next character is neither a comma nor a newline.
FieldTailStarts(body, i) ==
    { s \in (i + 2)..SkipWS(body, i + 1) : At(body, s) \notin {",", "\n", EOF} }

FieldMatchAt(body, i) ==
    /\ IsWord(At(body, i))
    /\ IsSpace(At(body, i + 1))
    /\ FieldTailStarts(body, i) # {}

\* \s+ is greedy: the tail starts as far right as it can.
FieldEnd(body, i) ==
    LET s == CHOOSE x \in FieldTailStarts(body, i) :
                 \A y \in FieldTailStarts(body, i) : y <= x
    IN  FindFirst(body, s, {",", "\n"})

RECURSIVE FieldBlockFinditer(_, _)
FieldBlockFinditer(body, i) ==
    IF i > Len(body) THEN << >>
    ELSE IF FieldMatchAt(body, i)
         THEN << body[i] >> \o FieldBlockFinditer(body, FieldEnd(body, i))
         ELSE FieldBlockFinditer(body, i + 1)

----------------------------------------------------------------------------
(* re.finditer(r'func\s*\((\w+)\s+\*?(\w+)\)\s+(\w+)', content) *)

FuncParen(text, i) == SkipWS(text, i + 1)
FuncStar(text, i) == SkipWS(text, FuncParen(text, i) + 2)
FuncType(text, i) ==
    IF At(text, FuncStar(text, i)) = "*" THEN FuncStar(text, i) + 1
    ELSE FuncStar(text, i)
FuncName(text, i) == SkipWS(text, FuncType(text, i) + 2)

FuncMatchAt(text, i) ==
    /\ At(text, i) = "func"
    /\ At(text, FuncParen(text, i)) = "("
    /\ IsWord(At(text, FuncParen(text, i) + 1))
    /\ IsSpace(At(text, FuncParen(text, i) + 2))
    /\ IsWord(At(text, FuncType(text, i)))
    /\ At(text, FuncType(text, i) + 1) = ")"
    /\ IsSpace(At(text, FuncType(text, i) + 2))
    /\ IsWord(At(text, FuncName(text, i)))

\* The matches in text order with their three groups.
RECURSIVE FuncFinditer(_, _)
FuncFinditer(text, i) ==
    IF i > Len(text) THEN << >>
    ELSE IF FuncMatchAt(text, i)
         THEN << [receiver_name |-> text[FuncParen(text, i) + 1],
                  type_name |-> text[FuncType(text, i)],
                  method_name |-> text[FuncName(text, i)]] >>
              \o FuncFinditer(text, FuncName(text, i) + 1)
         ELSE FuncFinditer(text, i + 1)

----------------------------------------------------------------------------
(* The scanned tree *)

\* shape.go
ShapeGo ==
    << "package", " ", "geo", "\n", "type", " ", "Shape", " ", "interface",
       " ", "{", " ", "Area", "(", ")", " ", "float64", ";", " ",
       "Perimeter", "(", ")", " ", "float64", " ", "}", "\n", "func", " ",
       "(", "c", " ", "Circle", ")", " ", "Area", "(", ")", " ", "float64",
       " ", "{", "}", "\n" >>

\* square.go
SquareGo ==
    << "package", " ", "geo", "\n", "import", " ", "(", "\n", "\t", "\"",
       "fmt", "\"", "\n", "\t", "\"", "os", "\"", "\n", ")", "\n", "type",
       " ", "Square", " ", "struct", " ", "{", "\n", "\t", "side", " ",
       "float64", "\n", "\t", "name", " ", "string", "\n", "}", "\n",
       "func", " ", "(", "s", " ", "*", "Square", ")", " ", "Area", "(",
       ")", " ", "float64", " ", "{", "}", "\n", "func", " ", "(", "q",
       " ", "Circle", ")", " ", "Grow", "(", ")", " ", "{", "}", "\n" >>

\* a/square.go
SubSquareGo ==
    << "package", " ", "geo", "\n", "import", " ", "(", ")", "\n", "type",
       " ", "Square", " ", "struct", " ", "{", " ", "w", " ", "int", " ",
       "}", "\n", "type", " ", "Shape", " ", "interface", " ", "{", " ",
       "Draw", "(", ")", " ", "}", "\n", "func", " ", "(", "x", " ",
       "Square", ")", " ", "Area", "(", ")", " ", "int", " ", "{", "}",
       "\n" >>

\* b/two.go
TwoGo ==
    << "package", " ", "one", "\n", "/", "/", " ", "package", " ", "two",
       "\n", "import", " ", "(", " ", "\"", "net", "/", "http", "\"", " ",
       ")", "\n", "import", " ", "(", " ", "\"", "os", "\"", " ", ")",
       "\n", "type", " ", "Foo", " ", "struct", " ", "{", " ", "x", " ",
       "int", " ", "}", "\n", "type", " ", "Empty", " ", "struct", " ",
       "{", "}", "\n", "type", " ", "Foo", " ", "struct", " ", "{", "\n",
       "\t", "y", ",", " ", "z", " ", "int", "\n", "}", "\n", "func", " ",
       "(", "f", " ", "Foo", ")", " ", "Get", "(", ")", " ", "{", "}",
       "\n" >>

\* b/nopkg.go
NoPkgGo ==
    << "import", " ", "\"", "fmt", "\"", "\n", "type", " ", "Square", " ",
       "struct", " ", "{", " ", "h", " ", "int", " ", "}", "\n", "type",
       " ", "Shape", " ", "interface", " ", "{", " ", "Fill", "(", "c",
       " ", "Color", ")", " ", "{", " ", "Stroke", "(", ")", " ", "}",
       "\n", "func", " ", "(", "s", " ", "Square", ")", " ", "Area", "(",
       ")", " ", "{", "}", "\n" >>

\* notes.md
NotesMd ==
    << "package", " ", "doc", "\n", "type", " ", "Shape", " ", "interface",
       " ", "{", " ", "X", "(", ")", " ", "}", "\n" >>

\* The files a scanned tree is drawn from: directory below root_dir, file name, text.
Catalogue ==
    << [dir |-> << >>, name |-> << "shape", ".", "go" >>, content |-> ShapeGo],
       [dir |-> << >>, name |-> << "square", ".", "go" >>, content |-> SquareGo],
       [dir |-> << << "a" >> >>, name |-> << "square", ".", "go" >>, content |-> SubSquareGo],
       [dir |-> << << "b" >> >>, name |-> << "two", ".", "go" >>, content |-> TwoGo],
       [dir |-> << << "b" >> >>, name |-> << "nopkg", ".", "go" >>, content |-> NoPkgGo],
       [dir |-> << >>, name |-> << "notes", ".", "md" >>, content |-> NotesMd] >>

FileIds == 1..Len(Catalogue)

\* GoCodeAnalyzer(project_root).root_dir, as a list of path components.
root_dir == << << "mini" >> >>

\* os.path.join(root, file) for the file's directory as os.walk reports it.
FullPath(f) == Append(root_dir \o Catalogue[f].dir, Catalogue[f].name)

\* os.path.relpath(file_path, self.root_dir) for a path below root_dir.
RelPath(file_path, start) == SubSeq(file_path, Len(start) + 1, Len(file_path))

\* file.endswith('.go')
EndsWithGo(name) ==
    /\ Len(name) >= 2
    /\ name[Len(name)] = "go"
    /\ name[Len(name) - 1] = "."

----------------------------------------------------------------------------
(* Dictionaries *)

EmptyDict == [k \in {} |-> {}]

Put(d, k, v) == [x \in DOMAIN d \cup {k} |-> IF x = k THEN v ELSE d[x]]

Range(s) == { s[i] : i \in DOMAIN s }

----------------------------------------------------------------------------
(* analyze_file, scanner by scanner *)

\* Variant: the path is added only when the set is created.
AddPackageFileOnCreate(d, package_name, rel_path) ==
    IF package_name \in DOMAIN d THEN d ELSE Put(d, package_name, {rel_path})

\* Variant: the set is replaced instead of extended.
AddPackageFileReplace(d, package_name, rel_path) == Put(d, package_name, {rel_path})

\* self.packages[package_name].add(rel_path), creating the set when missing.
AddPackageFile(d, package_name, rel_path) ==
    Put(d, package_name,
        (IF package_name \in DOMAIN d THEN d[package_name] ELSE {}) \cup {rel_path})

PackagesAfter(d, file_path, content) ==
    LET package_match == PackageSearch(content)
    IN  IF package_match # << >>
        THEN AddPackageFile(d, package_match[1], RelPath(file_path, root_dir))
        ELSE d

\* The set built from every quoted string of every import block.
ImportSet(import_matches) ==
    UNION { Range(QuotedFinditer(import_matches[b], 1)) : b \in DOMAIN import_matches }

\* Variant: the entry is stored only when the set is not empty.
SetImportsIfAny(d, file_path, import_matches) ==
    IF ImportSet(import_matches) # {}
    THEN Put(d, file_path, ImportSet(import_matches))
    ELSE d

\* if import_matches: ... self.imports[file_path] = imports
SetImports(d, file_path, import_matches) ==
    IF import_matches # << >>
    THEN Put(d, file_path, ImportSet(import_matches))
    ELSE d

ImportsAfter(d, file_path, content) ==
    SetImports(d, file_path, ImportFindall(content, 1))

\* self.interfaces[interface_name] = methods
SetInterface(d, interface_name, methods_list) == Put(d, interface_name, methods_list)

RECURSIVE StoreInterfaces(_, _)
StoreInterfaces(d, matches) ==
    IF matches = << >> THEN d
    ELSE StoreInterfaces(
             SetInterface(d, Head(matches).name,
                          MethodBlockFinditer(Head(matches).body, 1)),
             Tail(matches))

InterfacesAfter(d, content) == StoreInterfaces(d, TypeFinditer(content, 1, "interface"))

\* Variant: a redefinition extends the stored list.
SetStructMerge(d, struct_name, fields) ==
    Put(d, struct_name,
        (IF struct_name \in DOMAIN d THEN d[struct_name] ELSE << >>) \o fields)

\* self.structs[struct_name] = fields
SetStruct(d, struct_name, fields) == Put(d, struct_name, fields)

RECURSIVE StoreStructs(_, _)
StoreStructs(d, matches) ==
    IF matches = << >> THEN d
    ELSE StoreStructs(
             SetStruct(d, Head(matches).name,
                       FieldBlockFinditer(Head(matches).body, 1)),
             Tail(matches))

StructsAfter(d, content) == StoreStructs(d, TypeFinditer(content, 1, "struct"))

\* Variant: a name already in the list is not appended again.
AppendMethodOnce(d, type_name, method_name) ==
    LET old == IF type_name \in DOMAIN d THEN d[type_name] ELSE << >>
    IN  Put(d, type_name,
            IF method_name \in Range(old) THEN old ELSE Append(old, method_name))

\* Variant: the list is replaced by the new name.
AppendMethodReplace(d, type_name, method_name) == Put(d, type_name, << method_name >>)

\* self.methods[type_name].append(method_name), creating the list when missing.
AppendMethod(d, type_name, method_name) ==
    Put(d, type_name,
        Append(IF type_name \in DOMAIN d THEN d[type_name] ELSE << >>, method_name))

RECURSIVE StoreMethods(_, _)
StoreMethods(d, matches) ==
    IF matches = << >> THEN d
    ELSE StoreMethods(
             AppendMethod(d, Head(matches).type_name, Head(matches).method_name),
             Tail(matches))

MethodsAfter(d, content) == StoreMethods(d, FuncFinditer(content, 1))

----------------------------------------------------------------------------
(* State *)

VARIABLES
    tree,        \* the files below root_dir (indices into Catalogue)
    order,       \* the files the walk has gone through in this run, in order
    status,      \* "walking", "done" (analyze_directory returned), "aborted"
    failed,      \* the file whose read raised, if any
    run,         \* 1 for the first process, 2 after a restart
    firstRun,    \* what the first process ended with
    packages, interfaces, structs, methods, imports

vars == << tree, order, status, failed, run, firstRun,
           packages, interfaces, structs, methods, imports >>

collections == << packages, interfaces, structs, methods, imports >>

Visited == Range(order)

\* Variant: the new process inherits the dictionaries.
Stale == UNCHANGED << packages, interfaces, structs, methods, imports >>

\* GoCodeAnalyzer.__init__: five empty dictionaries.
Fresh ==
    /\ packages' = EmptyDict
    /\ interfaces' = EmptyDict
    /\ structs' = EmptyDict
    /\ methods' = EmptyDict
    /\ imports' = EmptyDict

NoRun == [status |-> "none", order |-> << >>, packages |-> EmptyDict, interfaces |-> EmptyDict,
          structs |-> EmptyDict, methods |-> EmptyDict, imports |-> EmptyDict]

Init ==
    /\ tree \in { t \in SUBSET FileIds : Cardinality(t) <= MaxFiles }
    /\ order = << >>
    /\ status = "walking"
    /\ failed = {}
    /\ run = 1
    /\ firstRun = NoRun
    /\ packages = EmptyDict
    /\ interfaces = EmptyDict
    /\ structs = EmptyDict
    /\ methods = EmptyDict
    /\ imports = EmptyDict

\* os.walk is top-down: the files of root_dir come before those of its
\* subdirectories, and the files of one directory come together; the order
\* inside a directory and among sibling directories is the platform's.
Pending(dir) == { g \in tree \ Visited : Catalogue[g].dir = dir }

NextInWalk(f) ==
    /\ f \in tree \ Visited
    /\ Catalogue[f].dir # << >> => Pending(<< >>) = {}
    /\ order # << >> =>
         LET cur == Catalogue[order[Len(order)]].dir
         IN  Pending(cur) # {} => Catalogue[f].dir = cur

\* One iteration of the loop of analyze_directory on a .go file that reads.
AnalyzeFile(f) ==
    /\ status = "walking"
    /\ NextInWalk(f)
    /\ EndsWithGo(Catalogue[f].name)
    /\ LET file_path == FullPath(f)
           content == Catalogue[f].content
       IN  /\ packages' = PackagesAfter(packages, file_path, content)
           /\ imports' = ImportsAfter(imports, file_path, content)
           /\ interfaces' = InterfacesAfter(interfaces, content)
           /\ structs' = StructsAfter(structs, content)
           /\ methods' = MethodsAfter(methods, content)
    /\ order' = Append(order, f)
    /\ UNCHANGED << tree, status, failed, run, firstRun >>

\* One iteration on a file whose name does not end in .go.
SkipFile(f) ==
    /\ status = "walking"
    /\ NextInWalk(f)
    /\ ~EndsWithGo(Catalogue[f].name)
    /\ order' = Append(order, f)
    /\ UNCHANGED << tree, status, failed, run, firstRun, collections >>

\* Variant: the failure is caught and the walk goes on to the next file.
ReadFailureSkipped(f) ==
    /\ status = "walking"
    /\ NextInWalk(f)
    /\ EndsWithGo(Catalogue[f].name)
    /\ failed' = {f}
    /\ order' = Append(order, f)
    /\ UNCHANGED << tree, status, run, firstRun, collections >>

\* open() or read() raises: nothing catches it, the walk ends there.
ReadFailure(f) ==
    /\ status = "walking"
    /\ NextInWalk(f)
    /\ EndsWithGo(Catalogue[f].name)
    /\ status' = "aborted"
    /\ failed' = {f}
    /\ UNCHANGED << tree, order, run, firstRun, collections >>

\* os.walk is exhausted: analyze_directory returns.
FinishWalk ==
    /\ status = "walking"
    /\ tree \ Visited = {}
    /\ status' = "done"
    /\ UNCHANGED << tree, order, failed, run, firstRun, collections >>

\* The process ends and a new one scans the same tree.
Restart ==
    /\ run = 1
    /\ status \in {"done", "aborted"}
    /\ firstRun' = [status |-> status, order |-> order, packages |-> packages,
                    interfaces |-> interfaces, structs |-> structs,
                    methods |-> methods, imports |-> imports]
    /\ Fresh
    /\ order' = << >>
    /\ status' = "walking"
    /\ failed' = {}
    /\ run' = 2
    /\ UNCHANGED tree

Next ==
    \/ \E f \in FileIds : AnalyzeFile(f)
    \/ \E f \in FileIds : SkipFile(f)
    \/ \E f \in FileIds : ReadFailure(f)
    \/ FinishWalk
    \/ Restart

Spec == Init /\ [][Next]_vars

----------------------------------------------------------------------------
(* What the properties are stated over *)

IsGoFile(f) == EndsWithGo(Catalogue[f].name)

\* The files analyzed so far in this run, in the order of their analysis.
Analyzed == SelectSeq(order, IsGoFile)
AnalyzedSet == Range(Analyzed)

Rel(f) == RelPath(FullPath(f), root_dir)

IsPrefix(s, t) == Len(s) <= Len(t) /\ SubSeq(t, 1, Len(s)) = s

Count(s, x) == Cardinality({ i \in DOMAIN s : s[i] = x })

\* Every type definition with keyword kw met so far, in order of processing.
RECURSIVE DefLog(_, _)
DefLog(files, kw) ==
    IF files = << >> THEN << >>
    ELSE TypeFinditer(Catalogue[Head(files)].content, 1, kw) \o DefLog(Tail(files), kw)

DefNames(log) == { log[i].name : i \in DOMAIN log }

LastDef(log, N) ==
    log[CHOOSE i \in DOMAIN log :
            /\ log[i].name = N
            /\ \A j \in DOMAIN log : log[j].name = N => j <= i]

\* Every word of a body that is directly followed by an opening parenthesis
\* that is closed later: the signatures <identifier>(...) the body lists.
RECURSIVE SignatureNames(_, _)
SignatureNames(body, i) ==
    IF i > Len(body) THEN << >>
    ELSE IF SigMatchAt(body, i)
         THEN << body[i] >> \o SignatureNames(body, FindFirst(body, i + 2, {")"}) + 1)
         ELSE SignatureNames(body, i + 1)

\* Every receiver-method signature met so far, in order of processing.
RECURSIVE SignatureLog(_)
SignatureLog(files) ==
    IF files = << >> THEN << >>
    ELSE LET text == Catalogue[Head(files)].content
             at == { i \in DOMAIN text : FuncMatchAt(text, i) }
             Sorted[k \in 0..Cardinality(at)] ==
                 IF k = 0 THEN << >>
                 ELSE LET i == CHOOSE x \in at :
                                   Cardinality({ y \in at : y < x }) = k - 1
                      IN  Append(Sorted[k - 1],
                                 [type_name |-> text[FuncType(text, i)],
                                  method_name |-> text[FuncName(text, i)],
                                  pointer |-> text[FuncStar(text, i)] = "*",
                                  receiver_name |-> text[FuncParen(text, i) + 1]])
         IN  Sorted[Cardinality(at)] \o SignatureLog(Tail(files))

RECURSIVE NamesFor(_, _)
NamesFor(log, T) ==
    IF log = << >> THEN << >>
    ELSE (IF Head(log).type_name = T THEN << Head(log).method_name >> ELSE << >>)
         \o NamesFor(Tail(log), T)

\* The positions of the package declarations of a text.
PackageDecls(text) == { i \in DOMAIN text : PackageMatchAt(text, i) }

FirstPackage(text) ==
    LET i == CHOOSE x \in PackageDecls(text) : \A y \in PackageDecls(text) : x <= y
    IN  text[SkipWS(text, i + 1)]

HasImportBlock(text) == \E i \in DOMAIN text : ImportMatchAt(text, i)

\* The go files of the tree that define a type named N with keyword kw.
FilesDefining(kw, N) ==
    { f \in tree : IsGoFile(f) /\
        N \in DefNames(TypeFinditer(Catalogue[f].content, 1, kw)) }

\* The go files of the tree with a method on receiver type T.
FilesWithMethodOn(T) ==
    { f \in tree : IsGoFile(f) /\
        \E i \in DOMAIN Catalogue[f].content :
            /\ FuncMatchAt(Catalogue[f].content, i)
            /\ Catalogue[f].content[FuncType(Catalogue[f].content, i)] = T }

BothRunsDone == run = 2 /\ status = "done" /\ firstRun.status = "done"

----------------------------------------------------------------------------
(* Properties *)

\* C1: after analyze_file, the Interfaces entry of N is the sequence of all
\* method names <identifier>(...) listed in the body of the definition of N,
\* in their order of appearance, none missing and none added.
C1_AllSignaturesListed ==
    \A N \in DOMAIN interfaces :
        interfaces[N] =
            SignatureNames(LastDef(DefLog(Analyzed, "interface"), N).body, 1)

\* C2 as stated: Imports has a key for a file only if at least one import
\* path was extracted from it, so no entry maps to the empty set.
C2_NoEmptyEntry ==
    \A k \in DOMAIN imports : imports[k] # {}

\* C2 amended: Imports has a key for a file exactly when the file was
\* analyzed and holds at least one import block "import ( ... )"; the entry is
\* the set of the quoted paths of its blocks, which is empty for a block
\* without paths; a file without an import block has no entry.
C2_EntryIffImportBlock ==
    /\ DOMAIN imports =
         { FullPath(f) : f \in { g \in AnalyzedSet : HasImportBlock(Catalogue[g].content) } }
    /\ \A f \in AnalyzedSet :
         HasImportBlock(Catalogue[f].content) =>
             imports[FullPath(f)] = ImportSet(ImportFindall(Catalogue[f].content, 1))

C2_Witness ==
    /\ \E f \in AnalyzedSet : FullPath(f) \in DOMAIN imports /\ imports[FullPath(f)] = {}
    /\ \E f \in AnalyzedSet : FullPath(f) \in DOMAIN imports /\ imports[FullPath(f)] # {}
    /\ \E f \in AnalyzedSet : FullPath(f) \notin DOMAIN imports

\* C3 as stated: two complete walks over the same files, each from empty
\* collections, end with the same five collections whatever the orders.
C3_OrderIndependent ==
    BothRunsDone =>
        /\ packages = firstRun.packages
        /\ interfaces = firstRun.interfaces
        /\ structs = firstRun.structs
        /\ methods = firstRun.methods
        /\ imports = firstRun.imports

\* C3 amended: two complete walks over the same files end with the same
\* Packages and Imports, the same keys in Interfaces, Structs and Methods, the
\* same entry for every interface or struct name that a single file defines,
\* and in Methods[T] the same names the same number of times; the entry of a
\* name defined in several files and the order inside Methods[T] follow the
\* order of visitation.
C3_OrderIndependentPart ==
    BothRunsDone =>
        /\ packages = firstRun.packages
        /\ imports = firstRun.imports
        /\ DOMAIN interfaces = DOMAIN firstRun.interfaces
        /\ DOMAIN structs = DOMAIN firstRun.structs
        /\ DOMAIN methods = DOMAIN firstRun.methods
        /\ \A N \in DOMAIN interfaces :
             Cardinality(FilesDefining("interface", N)) = 1 =>
                 interfaces[N] = firstRun.interfaces[N]
        /\ \A N \in DOMAIN structs :
             Cardinality(FilesDefining("struct", N)) = 1 =>
                 structs[N] = firstRun.structs[N]
        /\ \A T \in DOMAIN methods :
             /\ Len(methods[T]) = Len(firstRun.methods[T])
             /\ \A m \in Range(methods[T]) :
                  Count(methods[T], m) = Count(firstRun.methods[T], m)

C3_Witness ==
    /\ BothRunsDone
    /\ order # firstRun.order
    /\ structs # firstRun.structs
    /\ packages # EmptyDict
    /\ imports # EmptyDict

\* C4: two distinct analyzed files whose first package declaration names the
\* same package are both, by relative path, in the Packages entry of it.
C4_SamePackageHoldsBoth ==
    \A f, g \in AnalyzedSet :
        ( /\ f # g
          /\ PackageDecls(Catalogue[f].content) # {}
          /\ PackageDecls(Catalogue[g].content) # {}
          /\ FirstPackage(Catalogue[f].content) = FirstPackage(Catalogue[g].content) )
        => /\ FirstPackage(Catalogue[f].content) \in DOMAIN packages
           /\ Rel(f) # Rel(g)
           /\ {Rel(f), Rel(g)} \subseteq packages[FirstPackage(Catalogue[f].content)]

C4_Witness ==
    /\ Len(order) = 3
    /\ \E f, g \in AnalyzedSet :
         /\ f # g
         /\ PackageDecls(Catalogue[f].content) # {}
         /\ PackageDecls(Catalogue[g].content) # {}
         /\ FirstPackage(Catalogue[f].content) = FirstPackage(Catalogue[g].content)
         /\ order[1] = f /\ order[3] = g
         /\ Catalogue[f].dir # Catalogue[g].dir

\* C5: the Structs (Interfaces) entry of N is exactly the list extracted from
\* the most recently processed definition of N, never that list joined to an
\* earlier definition's.
C5_LastWriteWins ==
    /\ DOMAIN interfaces = DefNames(DefLog(Analyzed, "interface"))
    /\ DOMAIN structs = DefNames(DefLog(Analyzed, "struct"))
    /\ \A N \in DOMAIN interfaces :
         interfaces[N] =
             MethodBlockFinditer(LastDef(DefLog(Analyzed, "interface"), N).body, 1)
    /\ \A N \in DOMAIN structs :
         structs[N] =
             FieldBlockFinditer(LastDef(DefLog(Analyzed, "struct"), N).body, 1)

C5_Witness ==
    /\ \E f, g \in AnalyzedSet :
         /\ f # g
         /\ "Square" \in DefNames(TypeFinditer(Catalogue[f].content, 1, "struct"))
         /\ "Square" \in DefNames(TypeFinditer(Catalogue[g].content, 1, "struct"))
         /\ "Shape" \in DefNames(TypeFinditer(Catalogue[f].content, 1, "interface"))
         /\ "Shape" \in DefNames(TypeFinditer(Catalogue[g].content, 1, "interface"))
    /\ "Foo" \in DOMAIN structs

\* C6: Methods[T] is the concatenation, in order of visitation and of text, of
\* the method names of every receiver-method signature on T or *T seen so far,
\* once per occurrence, whatever the receiver variable and whether or not T is
\* a key of Structs or Interfaces.
C6_MethodsPureAppend ==
    /\ DOMAIN methods =
         { SignatureLog(Analyzed)[i].type_name : i \in DOMAIN SignatureLog(Analyzed) }
    /\ \A T \in DOMAIN methods : methods[T] = NamesFor(SignatureLog(Analyzed), T)

C6_Witness ==
    LET log == SignatureLog(Analyzed)
    IN  /\ \E i, j \in DOMAIN log :
             /\ i < j
             /\ log[i].type_name = log[j].type_name
             /\ log[i].method_name = log[j].method_name
             /\ log[i].pointer /\ ~log[j].pointer
             /\ log[i].receiver_name # log[j].receiver_name
        /\ \E T \in DOMAIN methods : T \notin DOMAIN structs \cup DOMAIN interfaces

\* C7 as stated: when no interface name and no struct name is defined in more
\* than one file, two complete scans of the unchanged tree, each from fresh
\* collections and in an order of its own, end with the same five collections.
C7_Idempotent ==
    ( /\ BothRunsDone
      /\ \A N \in DOMAIN interfaces : Cardinality(FilesDefining("interface", N)) <= 1
      /\ \A N \in DOMAIN structs : Cardinality(FilesDefining("struct", N)) <= 1 )
    => /\ packages = firstRun.packages
       /\ interfaces = firstRun.interfaces
       /\ structs = firstRun.structs
       /\ methods = firstRun.methods
       /\ imports = firstRun.imports

\* C7 amended: when no interface name, no struct name and no receiver type of
\* a method occurs in more than one file, two complete scans of the unchanged
\* tree, each from fresh collections and in an order of its own, end with the
\* same five collections.
C7_IdempotentNoSharedName ==
    ( /\ BothRunsDone
      /\ \A N \in DOMAIN interfaces : Cardinality(FilesDefining("interface", N)) <= 1
      /\ \A N \in DOMAIN structs : Cardinality(FilesDefining("struct", N)) <= 1
      /\ \A T \in DOMAIN methods : Cardinality(FilesWithMethodOn(T)) <= 1 )
    => /\ packages = firstRun.packages
       /\ interfaces = firstRun.interfaces
       /\ structs = firstRun.structs
       /\ methods = firstRun.methods
       /\ imports = firstRun.imports

C7_Witness ==
    /\ BothRunsDone
    /\ \A N \in DOMAIN interfaces : Cardinality(FilesDefining("interface", N)) <= 1
    /\ \A N \in DOMAIN structs : Cardinality(FilesDefining("struct", N)) <= 1
    /\ \A T \in DOMAIN methods : Cardinality(FilesWithMethodOn(T)) <= 1
    /\ Len(Analyzed) >= 2
    /\ Analyzed # SelectSeq(firstRun.order, IsGoFile)
    /\ interfaces # EmptyDict /\ structs # EmptyDict /\ Cardinality(DOMAIN methods) >= 2

\* C8: in a step of a scan no key leaves a collection, every Packages set
\* keeps its members, every Methods list stays a prefix of its successor and an
\* Imports entry is left as it is.
C8_Monotonic ==
    [][run' = run =>
        /\ DOMAIN packages \subseteq DOMAIN packages'
        /\ DOMAIN interfaces \subseteq DOMAIN interfaces'
        /\ DOMAIN structs \subseteq DOMAIN structs'
        /\ DOMAIN methods \subseteq DOMAIN methods'
        /\ DOMAIN imports \subseteq DOMAIN imports'
        /\ \A p \in DOMAIN packages : packages[p] \subseteq packages'[p]
        /\ \A T \in DOMAIN methods : IsPrefix(methods[T], methods'[T])
        /\ \A k \in DOMAIN imports : imports'[k] = imports[k]]_vars

C8_Witness ==
    /\ Len(Analyzed) >= 2
    /\ \E T \in DOMAIN methods :
         /\ Len(methods[T]) >= 2
         /\ Cardinality(FilesWithMethodOn(T) \cap AnalyzedSet) >= 2
         /\ methods[T][1] # methods[T][2]
    /\ \E p \in DOMAIN packages : Cardinality(packages[p]) >= 2
    /\ imports # EmptyDict

\* C9: a file whose read fails adds nothing to the collections, which keep
\* what the files before it gave, and no file is analyzed after it: the walk
\* is over.
C9_ReadFailureAborts ==
    [][/\ (failed = {} /\ failed' # {}) =>
              /\ collections' = collections
              /\ order' = order
              /\ status' = "aborted"
       /\ (failed # {} /\ run' = run) =>
              /\ collections' = collections
              /\ order' = order
              /\ status' = "aborted"]_vars

C9_Witness ==
    /\ status = "aborted"
    /\ failed # {}
    /\ Analyzed # << >>
    /\ methods # EmptyDict
    /\ \E f \in tree \ (Visited \cup failed) : IsGoFile(f)

\* C10: a relative path is in at most one Packages set; an analyzed file is in
\* the set of the package its first declaration names and in no other, and a
\* file without a package declaration is in none.
C10_OnePackagePerFile ==
    /\ \A p, q \in DOMAIN packages : p # q => packages[p] \cap packages[q] = {}
    /\ UNION { packages[p] : p \in DOMAIN packages } \subseteq { Rel(f) : f \in AnalyzedSet }
    /\ \A f \in AnalyzedSet : \A p \in DOMAIN packages :
         Rel(f) \in packages[p] <=>
             /\ PackageDecls(Catalogue[f].content) # {}
             /\ p = FirstPackage(Catalogue[f].content)
    /\ \A f \in AnalyzedSet :
         PackageDecls(Catalogue[f].content) # {} =>
             FirstPackage(Catalogue[f].content) \in DOMAIN packages

C10_Witness ==
    /\ \E f \in AnalyzedSet : Cardinality(PackageDecls(Catalogue[f].content)) >= 2
    /\ \E f \in AnalyzedSet : PackageDecls(Catalogue[f].content) = {}
    /\ Cardinality(DOMAIN packages) >= 2

====
